---- MODULE Spec2Model ----
(***************************************************************************)
(* A model of the ss SOCKS5 local proxy: the RC4 stream cipher with its    *)
(* key derivation (src/rc4.rs), the encrypting reader / writer adapters    *)
(* (src/stream.rs) and the per-connection session: handshake, request      *)
(* parsing, upstream connect and the two copy loops (src/main.rs).         *)
(***************************************************************************)
EXTENDS Integers, Sequences, FiniteSets, TLC

(***************************************************************************)
(* Bytes.  u8 arithmetic wraps modulo 256.                                 *)
(***************************************************************************)
Byte == 0..255

WrappingAdd(a, b) == (a + b) % 256

Bit(a, k) == (a \div (2 ^ k)) % 2

\* the keystream byte added, not xor-ed
Xor_AsAdd(a, b) == WrappingAdd(a, b)

\* a ^ b on u8
Xor(a, b) ==
    LET X(k) == ((Bit(a, k) + Bit(b, k)) % 2) * (2 ^ k)
    IN  X(0) + X(1) + X(2) + X(3) + X(4) + X(5) + X(6) + X(7)

Take(s, n) == SubSeq(s, 1, IF n < Len(s) THEN n ELSE Len(s))

Drop(s, n) == SubSeq(s, n + 1, Len(s))

Min(a, b) == IF a < b THEN a ELSE b

\* F(v), with v evaluated to a value before F is entered: the loops below
\* run hundreds of rounds, and each round starts from the finished result
\* of the one before
Bind(v, F(_)) == CHOOSE r \in {F(x) : x \in {v}} : TRUE

(***************************************************************************)
(* src/rc4.rs: key derivation.                                             *)
(* compute() is the digest of the external md5 crate.  The crate is not    *)
(* part of this repository; it is represented by a fixed deterministic     *)
(* function from byte strings to 16 bytes that depends on every input byte *)
(* and on its position.                                                    *)
(***************************************************************************)
MD5_LENGTH == 16

KEY_LEN == 16

\* one input byte, with its position, folded into the running value
DigestStep(data, acc, i) ==
    IF i > Len(data) THEN acc
    ELSE ((acc * 33) + ((data[i] + 1) * i)) % 65521

\* the input bytes i, i+1, ... folded in order, two, four, ... at a time
DigestFold2(data, acc, i) ==
    Bind(DigestStep(data, acc, i), LAMBDA a : DigestStep(data, a, i + 1))

DigestFold4(data, acc, i) ==
    Bind(DigestFold2(data, acc, i), LAMBDA a : DigestFold2(data, a, i + 2))

DigestFold8(data, acc, i) ==
    Bind(DigestFold4(data, acc, i), LAMBDA a : DigestFold4(data, a, i + 4))

DigestFold16(data, acc, i) ==
    Bind(DigestFold8(data, acc, i), LAMBDA a : DigestFold8(data, a, i + 8))

DigestFold32(data, acc, i) ==
    Bind(DigestFold16(data, acc, i), LAMBDA a : DigestFold16(data, a, i + 16))

DigestFold64(data, acc, i) ==
    Bind(DigestFold32(data, acc, i), LAMBDA a : DigestFold32(data, a, i + 32))

\* the running value of an input of at most 64 bytes (the inputs of the key
\* derivation are a password, or a 16-byte key followed by a 16-byte IV)
DigestValue(data) == DigestFold64(data, 7 + Len(data), 1)

\* byte k of the digest
DigestByte(v, k) == (((v + (31 * k)) * ((2 * k) + 1)) \div 7) % 256

compute(data) ==
    Bind(DigestValue(data), LAMBDA v :
        <<DigestByte(v, 1), DigestByte(v, 2), DigestByte(v, 3), DigestByte(v, 4),
          DigestByte(v, 5), DigestByte(v, 6), DigestByte(v, 7), DigestByte(v, 8),
          DigestByte(v, 9), DigestByte(v, 10), DigestByte(v, 11), DigestByte(v, 12),
          DigestByte(v, 13), DigestByte(v, 14), DigestByte(v, 15), DigestByte(v, 16)>>)

\* count = ceil(key_len / MD5_LENGTH); the first block is compute(data) and
\* each round of `for _ in 1..count` appends compute(previous block ++ data).
\* The loop is unrolled to its first round: the only caller passes KEY_LEN,
\* for which count = 1 and the loop body never runs.
generate_key(data, key_len) ==
    LET count == (key_len + MD5_LENGTH - 1) \div MD5_LENGTH
    IN  Bind(compute(data),
             LAMBDA key :
                IF count <= 1 THEN key
                ELSE key \o compute(SubSeq(key, 1, MD5_LENGTH) \o data))

generate_rc4_key(pw, iv) ==
    compute(generate_key(pw, KEY_LEN) \o iv)

(***************************************************************************)
(* src/rc4.rs: the cipher.  state[x] of the source is state[x + 1] of the  *)
(* 256-long sequence here, and key[x] is key[x + 1].                       *)
(***************************************************************************)
Rc4New(pw) ==
    [i |-> 0, j |-> 0, state |-> [x \in 1..256 |-> 0],
     password |-> pw, init |-> FALSE]

is_init(rc) == rc.init

\* one entry copied over the other
Swap_Overwrites(st, a, b) == [st EXCEPT ![a + 1] = st[b + 1]]

Swap(st, a, b) == [st EXCEPT ![a + 1] = st[b + 1], ![b + 1] = st[a + 1]]

\* for i in 0..256 { self.state[i] = i as u8 }
IdentityState == [x \in 1..256 |-> x - 1] \o <<>>

\* one round of the key-scheduling loop (rc4.rs:40-45) on [st, j]
KsaStep(sj, key, i) ==
    LET j2 == WrappingAdd(WrappingAdd(sj.j, sj.st[i + 1]), key[(i % Len(key)) + 1])
    IN  [st |-> Swap(sj.st, i, j2), j |-> j2]

\* the rounds i, i+1, ... in order, two, four, ... at a time
KsaRounds2(sj, key, i) ==
    Bind(KsaStep(sj, key, i), LAMBDA m : KsaStep(m, key, i + 1))

KsaRounds4(sj, key, i) ==
    Bind(KsaRounds2(sj, key, i), LAMBDA m : KsaRounds2(m, key, i + 2))

KsaRounds8(sj, key, i) ==
    Bind(KsaRounds4(sj, key, i), LAMBDA m : KsaRounds4(m, key, i + 4))

KsaRounds16(sj, key, i) ==
    Bind(KsaRounds8(sj, key, i), LAMBDA m : KsaRounds8(m, key, i + 8))

KsaRounds32(sj, key, i) ==
    Bind(KsaRounds16(sj, key, i), LAMBDA m : KsaRounds16(m, key, i + 16))

KsaRounds64(sj, key, i) ==
    Bind(KsaRounds32(sj, key, i), LAMBDA m : KsaRounds32(m, key, i + 32))

KsaRounds128(sj, key, i) ==
    Bind(KsaRounds64(sj, key, i), LAMBDA m : KsaRounds64(m, key, i + 64))

\* for i in 0..256 { ... }: all 256 rounds
KsaRounds(sj, key) ==
    Bind(KsaRounds128(sj, key, 0), LAMBDA m : KsaRounds128(m, key, 128))

Rc4Init(rc, iv) ==
    Bind(generate_rc4_key(rc.password, iv),
         LAMBDA key :
            [rc EXCEPT !.state = KsaRounds([st |-> IdentityState, j |-> 0], key).st,
                       !.init = TRUE])

\* next_byte: the cipher after the step, and the keystream byte it returns
next_byte(rc) ==
    LET i2 == WrappingAdd(rc.i, 1)
        j2 == WrappingAdd(rc.j, rc.state[i2 + 1])
        st == Swap(rc.state, i2, j2)
    IN  [rc |-> [rc EXCEPT !.i = i2, !.j = j2, !.state = st],
         byte |-> st[WrappingAdd(st[i2 + 1], st[j2 + 1]) + 1]]

\* crypt_inplace: the cipher after the call, and the buffer after the call.
\* for i in 0..input.len() { input[i] ^= self.next_byte() }: the bytes are
\* taken in order, the buffer cut in halves.
RECURSIVE crypt_inplace(_, _)
crypt_inplace(rc, input) ==
    IF input = <<>> THEN [rc |-> rc, out |-> <<>>]
    ELSE IF Len(input) = 1
    THEN Bind(next_byte(rc),
              LAMBDA nb : [rc |-> nb.rc, out |-> <<Xor(input[1], nb.byte)>>])
    ELSE LET mid == Len(input) \div 2
         IN  Bind(crypt_inplace(rc, SubSeq(input, 1, mid)),
                  LAMBDA a :
                     Bind(crypt_inplace(a.rc, SubSeq(input, mid + 1, Len(input))),
                          LAMBDA b : [rc |-> b.rc, out |-> a.out \o b.out]))

(***************************************************************************)
(* src/stream.rs: the encrypting writer and reader, as the steps of one    *)
(* call.  generate_iv() draws 16 random bytes; the model draws the IV from *)
(* the set IVs.                                                            *)
(***************************************************************************)
IV_LEN == 16

IVa == [k \in 1..IV_LEN |-> k]

IVb == [k \in 1..IV_LEN |-> (200 + (7 * k)) % 256]

IVs == {IVa, IVb}

generate_iv == IVs

\* the writer calls generate_iv() only while its cipher is fresh
WriterIvs(enc) == IF is_init(enc) THEN {<<>>} ELSE generate_iv

\* the writer keeps the cipher as init left it: every call starts the
\* keystream again
CryptoWrite_data_KeystreamRestarts(enc, buf, iv) ==
    Bind(IF is_init(enc) THEN enc ELSE Rc4Init(enc, iv),
         LAMBDA e1 :
            Bind(crypt_inplace(e1, buf),
                 LAMBDA c : [enc |-> e1,
                             data |-> (IF is_init(enc) THEN <<>> ELSE iv) \o c.out]))

\* CryptoWrite::write up to the underlying write: the cipher after the call
\* and the bytes handed to the endpoint (IV first when the cipher was fresh)
CryptoWrite_data(enc, buf, iv) ==
    Bind(IF is_init(enc) THEN enc ELSE Rc4Init(enc, iv),
         LAMBDA e1 :
            Bind(crypt_inplace(e1, buf),
                 LAMBDA c : [enc |-> c.rc,
                             data |-> (IF is_init(enc) THEN <<>> ELSE iv) \o c.out]))

\* CryptoRead::read after the underlying read returned chunk (n = Len(chunk))
CryptoRead_decrypt(dec, chunk) ==
    IF Len(chunk) > 0 THEN crypt_inplace(dec, chunk)
    ELSE [rc |-> dec, out |-> <<>>]

(***************************************************************************)
(* The session of one accepted connection (src/main.rs, handle_client).    *)
(***************************************************************************)
SOCKS5_VER == 5

CMD_BIND == 1

ATYP_IPV4 == 1

ATYPE_HOST == 3

ATYPE_IPV6 == 4

\* std::io::BufReader's and io::copy's buffer size (DEFAULT_BUF_SIZE)
BufCap == 8192

HandshakeReply == <<SOCKS5_VER, 0>>

ConnectReply == <<SOCKS5_VER, 0, 0, 1, 0, 0, 0, 0, 0, 0>>

VARIABLES
    password,    \* cfg.password
    cliSent,     \* every byte the client sends over the connection's life
    cliArrived,  \* how many of them have reached the proxy's socket
    cliRead,     \* how many of them the proxy has read from the socket
    cliPeer,     \* "open", "fin" (client closed) or "rst" (client reset)
    cliShut,     \* shutdown(Both) has been done on the client socket
    cliOut,      \* bytes written to the client socket
    upConn,      \* "none", "open" or "refused": TcpStream::connect(server_addr)
    upSent, upArrived, upRead, upPeer, upShut, upOut,   \* same, upstream
    pc,          \* where handle_client is
    pos,         \* how many bytes of cliSent the current BufReader has parsed
    rqStart,     \* cliRead when connect() created its BufReader
    ver, nmethods, cmd, atype, hostLen,
    raw_addr, addr,
    result,      \* "running", "ok", "err" or "panic"
    failAt,      \* pc of the step that failed, "" if none
    enc, dec,    \* the ciphers of conn_w and conn_r
    ivW,         \* the IV conn_w generated, <<>> before
    ivBuf,       \* IV bytes conn_r has read so far
    t1, t2,      \* the client->upstream and upstream->client copy threads
    c2uWritten,  \* client bytes the first loop has written to conn_w
    u2cRead,     \* plaintext the second loop has got from conn_r
    wr,          \* an encrypting writer over an arbitrary endpoint
    rd,          \* an encrypting reader over an arbitrary endpoint
    ci,          \* two cipher instances used on their own
    proc         \* the process: main's accept loop and its session threads

sockVars == <<cliSent, cliArrived, cliRead, cliPeer, cliShut, cliOut,
              upConn, upSent, upArrived, upRead, upPeer, upShut, upOut>>

parseVars == <<pos, rqStart, ver, nmethods, cmd, atype, hostLen, raw_addr, addr>>

cryptoVars == <<enc, dec, ivW, ivBuf>>

threadVars == <<t1, t2, c2uWritten, u2cRead>>

adapterVars == <<wr, rd, ci, proc>>

sessionVars == <<sockVars, pc, parseVars, result, failAt, cryptoVars, threadVars>>

vars == <<adapterVars, password, sessionVars>>

(***************************************************************************)
(* What the client and the upstream relay may send.  A script is the whole *)
(* byte stream of one peer; how it is cut into segments and where the peer *)
(* stops is decided step by step by the environment actions below.         *)
(***************************************************************************)
MaxPayload == 1

HsNoMethods == <<5, 0>>

HsNoAuth == <<5, 1, 0>>

HsOtherMethods == <<5, 2, 1, 2>>

HsBadVer == <<4, 1, 0>>

ReqV4 == <<5, 1, 0, 1, 1, 2, 3, 4, 0, 80>>

ReqV6 == <<5, 1, 0, 4>> \o [k \in 1..16 |-> 32 + k] \o <<1, 187>>

\* the name is "a:80"
ReqHost == <<5, 1, 0, 3, 4, 97, 58, 56, 48, 0, 80>>

\* the name is "ab"
ReqHostNoPort == <<5, 1, 0, 3, 2, 97, 98, 0, 80>>

ReqBadVer == <<4, 1, 0, 1, 1, 2, 3, 4, 0, 80>>

ReqBadCmd == <<5, 2, 0, 1, 1, 2, 3, 4, 0, 80>>

ReqBadAtyp == <<5, 1, 0, 2, 1, 2, 3, 4, 0, 80>>

ClientPayload == [k \in 1..MaxPayload |-> 64 + k]

ClientScripts ==
    {h \o ReqV4 : h \in {HsNoMethods, HsOtherMethods, HsBadVer}}
    \cup {HsNoAuth \o ReqV4 \o ClientPayload}
    \cup {HsNoAuth \o r : r \in {ReqV6, ReqHost, ReqHostNoPort,
                                 ReqBadVer, ReqBadCmd, ReqBadAtyp}}

UpstreamPayload == [k \in 1..MaxPayload |-> 8 + k]

UpstreamScripts == {IVb \o UpstreamPayload}

\* where the upstream's segments may end: inside the IV, at its end, and at
\* every byte after it
IvCut == 8

UpstreamCuts == {IvCut} \cup (IV_LEN..(IV_LEN + MaxPayload))

Passwords == {<<112, 119>>}

(***************************************************************************)
(* The TCP sockets (std::net::TcpStream in blocking mode).  A read returns *)
(* what has arrived, up to the buffer's length; it returns 0 once the peer *)
(* has closed, or the socket was shut down locally, and nothing is left;   *)
(* it fails after a reset; otherwise it blocks.  A write transfers the     *)
(* whole buffer or fails.  shutdown fails (ENOTCONN) on a connection that  *)
(* was reset, and may fail once both directions have been closed.          *)
(***************************************************************************)
SockRead(arrived, read, peer, shut, n) ==
    IF peer = "rst" THEN [kind |-> "err", n |-> 0]
    ELSE IF arrived > read THEN [kind |-> "data", n |-> Min(n, arrived - read)]
    ELSE IF peer = "fin" \/ shut THEN [kind |-> "eof", n |-> 0]
    ELSE [kind |-> "block", n |-> 0]

SockWritable(peer, shut) == peer # "rst" /\ ~shut

SockShutdown(peer, shut) ==
    IF peer = "rst" THEN {"err"}
    ELSE IF shut /\ peer = "fin" THEN {"ok", "err"}
    ELSE {"ok"}

CliRecv(n) == SockRead(cliArrived, cliRead, cliPeer, cliShut, n)

UpRecv(n) == SockRead(upArrived, upRead, upPeer, upShut, n)

IdleThread == [pc |-> "idle", buf |-> <<>>, end |-> "none", shut |-> {}]

\* the adapters of the two sections after the session, not in use here
NoWriter == [kind |-> "none"]

NoReader == [kind |-> "none"]

\* the same for the cipher instances and the process of the last sections
NoCipher == [kind |-> "none"]

NoProcess == [kind |-> "none"]

\* a connection just accepted, nothing received or sent
SessionStart ==
    /\ cliArrived = 0 /\ cliRead = 0 /\ cliPeer = "open" /\ cliShut = FALSE
    /\ cliOut = <<>>
    /\ upConn = "none"
    /\ upArrived = 0 /\ upRead = 0 /\ upPeer = "open" /\ upShut = FALSE
    /\ upOut = <<>>
    /\ pc = "hs_ver" /\ pos = 0 /\ rqStart = 0
    /\ ver = 0 /\ nmethods = 0 /\ cmd = 0 /\ atype = 0 /\ hostLen = 0
    /\ raw_addr = <<>> /\ addr = [kind |-> "unset"]
    /\ result = "running" /\ failAt = ""
    /\ enc = Rc4New(password) /\ dec = Rc4New(password)
    /\ ivW = <<>> /\ ivBuf = <<>>
    /\ t1 = IdleThread /\ t2 = IdleThread
    /\ c2uWritten = <<>> /\ u2cRead = <<>>

Init ==
    /\ password \in Passwords
    /\ cliSent \in ClientScripts
    /\ upSent \in UpstreamScripts
    /\ SessionStart
    /\ wr = NoWriter /\ rd = NoReader
    /\ ci = NoCipher /\ proc = NoProcess

SessionOver ==
    /\ pc \in {"closed", "aborted"}
    /\ t1.pc \in {"idle", "done", "panicked"}
    /\ t2.pc \in {"idle", "done", "panicked"}

(***************************************************************************)
(* The peers.                                                              *)
(***************************************************************************)
ClientSend ==
    /\ ~SessionOver /\ cliPeer = "open" /\ cliArrived < Len(cliSent)
    /\ \E n \in (cliArrived + 1)..Len(cliSent) : cliArrived' = n
    /\ UNCHANGED <<adapterVars, password, cliSent, cliRead, cliPeer, cliShut, cliOut,
                   upConn, upSent, upArrived, upRead, upPeer, upShut, upOut,
                   pc, parseVars, result, failAt, cryptoVars, threadVars>>

ClientClose ==
    /\ ~SessionOver /\ cliPeer = "open"
    /\ cliPeer' = "fin"
    /\ UNCHANGED <<adapterVars, password, cliSent, cliArrived, cliRead, cliShut, cliOut,
                   upConn, upSent, upArrived, upRead, upPeer, upShut, upOut,
                   pc, parseVars, result, failAt, cryptoVars, threadVars>>

ClientReset ==
    /\ ~SessionOver /\ cliPeer \in {"open", "fin"}
    /\ cliPeer' = "rst"
    /\ UNCHANGED <<adapterVars, password, cliSent, cliArrived, cliRead, cliShut, cliOut,
                   upConn, upSent, upArrived, upRead, upPeer, upShut, upOut,
                   pc, parseVars, result, failAt, cryptoVars, threadVars>>

UpstreamSend ==
    /\ ~SessionOver /\ upConn = "open" /\ upPeer = "open"
    /\ upArrived < Len(upSent)
    /\ \E n \in UpstreamCuts : n > upArrived /\ n <= Len(upSent) /\ upArrived' = n
    /\ UNCHANGED <<adapterVars, password, cliSent, cliArrived, cliRead, cliPeer, cliShut,
                   cliOut, upConn, upSent, upRead, upPeer, upShut, upOut,
                   pc, parseVars, result, failAt, cryptoVars, threadVars>>

UpstreamClose ==
    /\ ~SessionOver /\ upConn = "open" /\ upPeer = "open"
    /\ upPeer' = "fin"
    /\ UNCHANGED <<adapterVars, password, cliSent, cliArrived, cliRead, cliPeer, cliShut,
                   cliOut, upConn, upSent, upArrived, upRead, upShut, upOut,
                   pc, parseVars, result, failAt, cryptoVars, threadVars>>

UpstreamReset ==
    /\ ~SessionOver /\ upConn = "open" /\ upPeer \in {"open", "fin"}
    /\ upPeer' = "rst"
    /\ UNCHANGED <<adapterVars, password, cliSent, cliArrived, cliRead, cliPeer, cliShut,
                   cliOut, upConn, upSent, upArrived, upRead, upShut, upOut,
                   pc, parseVars, result, failAt, cryptoVars, threadVars>>

(***************************************************************************)
(* Reading through a BufReader (main.rs:56, main.rs:81).  The BufReader    *)
(* holds the bytes cliSent[pos+1 .. cliRead]; when a read_exact needs more *)
(* than it holds it fills itself with one socket read of up to BufCap      *)
(* bytes, which fails the read_exact on EOF or on an error.                *)
(***************************************************************************)
Buffered == cliRead - pos

Field(k) == SubSeq(cliSent, pos + 1, pos + k)

ReadPcs == {"hs_ver", "hs_nmethods", "hs_methods", "rq_header", "rq_v4addr",
            "rq_v4port", "rq_v6", "rq_hostlen", "rq_host"}

Need ==
    CASE pc \in {"hs_ver", "hs_nmethods", "rq_hostlen"} -> 1
      [] pc = "hs_methods" -> nmethods
      [] pc \in {"rq_header", "rq_v4addr"} -> 4
      [] pc = "rq_v4port" -> 2
      [] pc = "rq_v6" -> 18
      [] pc = "rq_host" -> hostLen
      [] OTHER -> 0

Fail(at) == pc' = "aborted" /\ result' = "err" /\ failAt' = at

Panic(at) == pc' = "aborted" /\ result' = "panic" /\ failAt' = at

BufFill ==
    /\ pc \in ReadPcs /\ Need > Buffered
    /\ CliRecv(BufCap).kind = "data"
    /\ cliRead' = cliRead + CliRecv(BufCap).n
    /\ UNCHANGED <<adapterVars, password, cliSent, cliArrived, cliPeer, cliShut, cliOut,
                   upConn, upSent, upArrived, upRead, upPeer, upShut, upOut,
                   pc, parseVars, result, failAt, cryptoVars, threadVars>>

BufFillFail ==
    /\ pc \in ReadPcs /\ Need > Buffered
    /\ CliRecv(BufCap).kind \in {"eof", "err"}
    /\ Fail(pc)
    /\ UNCHANGED <<adapterVars, password, sockVars, parseVars, cryptoVars, threadVars>>

(***************************************************************************)
(* handshake (main.rs:55-67)                                               *)
(***************************************************************************)
HsVer ==
    /\ pc = "hs_ver" /\ Buffered >= Need
    /\ ver' = Field(1)[1]
    /\ pos' = pos + 1
    /\ IF ver' # SOCKS5_VER THEN Fail(pc)
       ELSE pc' = "hs_nmethods" /\ UNCHANGED <<result, failAt>>
    /\ UNCHANGED <<adapterVars, password, sockVars, rqStart, nmethods, cmd, atype, hostLen,
                   raw_addr, addr, cryptoVars, threadVars>>

HsNMethods ==
    /\ pc = "hs_nmethods" /\ Buffered >= Need
    /\ nmethods' = Field(1)[1]
    /\ pos' = pos + 1
    /\ pc' = "hs_methods"
    /\ UNCHANGED <<adapterVars, password, sockVars, rqStart, ver, cmd, atype, hostLen,
                   raw_addr, addr, result, failAt, cryptoVars, threadVars>>

\* one byte more than nmethods taken as methods
HsMethods_OneTooMany ==
    /\ pc = "hs_methods" /\ Buffered >= Need
    /\ pos' = pos + nmethods + 1
    /\ pc' = "hs_reply"
    /\ UNCHANGED <<adapterVars, password, sockVars, rqStart, ver, nmethods, cmd, atype,
                   hostLen, raw_addr, addr, result, failAt, cryptoVars,
                   threadVars>>

HsMethods ==
    /\ pc = "hs_methods" /\ Buffered >= Need
    /\ pos' = pos + nmethods
    /\ pc' = "hs_reply"
    /\ UNCHANGED <<adapterVars, password, sockVars, rqStart, ver, nmethods, cmd, atype,
                   hostLen, raw_addr, addr, result, failAt, cryptoVars,
                   threadVars>>

\* buf_reader.get_mut().write([SOCKS5_VER, 0])?; the BufReader is dropped and
\* connect() wraps the socket in a new, empty one
HsReply ==
    /\ pc = "hs_reply"
    /\ IF SockWritable(cliPeer, cliShut)
       THEN /\ cliOut' = cliOut \o HandshakeReply
            /\ pc' = "rq_header"
            /\ pos' = cliRead /\ rqStart' = cliRead
            /\ UNCHANGED <<result, failAt>>
       ELSE /\ Fail(pc)
            /\ UNCHANGED <<cliOut, pos, rqStart>>
    /\ UNCHANGED <<adapterVars, password, cliSent, cliArrived, cliRead, cliPeer, cliShut,
                   upConn, upSent, upArrived, upRead, upPeer, upShut, upOut,
                   ver, nmethods, cmd, atype, hostLen, raw_addr, addr,
                   cryptoVars, threadVars>>

(***************************************************************************)
(* connect: request parsing (main.rs:80-134)                               *)
(***************************************************************************)
BigEndian16(b) == (b[1] * 256) + b[2]

RECURSIVE LastIndexOf(_, _, _)
LastIndexOf(str, ch, n) ==
    IF n = 0 THEN 0
    ELSE IF str[n] = ch THEN n
    ELSE LastIndexOf(str, ch, n - 1)

\* str::parse::<u16>: decimal digits after an optional '+'; 65536 stands for
\* every value that does not fit
RECURSIVE DecimalValue(_, _)
DecimalValue(digits, acc) ==
    IF digits = <<>> THEN acc
    ELSE IF acc > 65535 THEN 65536
    ELSE DecimalValue(Tail(digits), (acc * 10) + (Head(digits) - 48))

ParseU16(str) ==
    LET digits == IF str # <<>> /\ str[1] = 43 THEN Tail(str) ELSE str
    IN  IF digits = <<>> \/ \E k \in 1..Len(digits) : digits[k] \notin 48..57
        THEN -1
        ELSE LET v == DecimalValue(digits, 0) IN IF v > 65535 THEN -1 ELSE v

\* <str as ToSocketAddrs>::to_socket_addrs of a name: "host:port" is split at
\* the last ':' and the host looked up; the lookup fails, or yields a list
\* of endpoints of which .next() takes the first, if there is one
to_socket_addrs(name) ==
    LET colon == LastIndexOf(name, 58, Len(name))
        port  == IF colon = 0 THEN -1
                 ELSE ParseU16(SubSeq(name, colon + 1, Len(name)))
    IN  IF port = -1 THEN {[kind |-> "err"]}
        ELSE {[kind |-> "err"], [kind |-> "none"],
              [kind |-> "ok", host |-> SubSeq(name, 1, colon - 1), port |-> port]}

RqHeader ==
    /\ pc = "rq_header" /\ Buffered >= Need
    /\ LET buf == Field(4) IN
       /\ ver' = buf[1] /\ cmd' = buf[2] /\ atype' = buf[4]
       /\ pos' = pos + 4
       /\ IF buf[1] # SOCKS5_VER \/ buf[2] # CMD_BIND
          THEN /\ Fail(pc)
               /\ UNCHANGED <<raw_addr, addr>>
          ELSE /\ raw_addr' = <<buf[4]>>
               /\ UNCHANGED <<result, failAt>>
               /\ CASE buf[4] = ATYP_IPV4 -> pc' = "rq_v4addr" /\ UNCHANGED addr
                    [] buf[4] = ATYPE_IPV6 -> pc' = "rq_v6" /\ UNCHANGED addr
                    [] buf[4] = ATYPE_HOST -> pc' = "rq_hostlen" /\ UNCHANGED addr
                    [] OTHER -> pc' = "rq_reply" /\ addr' = [kind |-> "err"]
    /\ UNCHANGED <<adapterVars, password, sockVars, rqStart, nmethods, hostLen, cryptoVars,
                   threadVars>>

RqV4Addr ==
    /\ pc = "rq_v4addr" /\ Buffered >= Need
    /\ raw_addr' = raw_addr \o Field(4)
    /\ addr' = [kind |-> "pending", ip |-> Field(4)]
    /\ pos' = pos + 4
    /\ pc' = "rq_v4port"
    /\ UNCHANGED <<adapterVars, password, sockVars, rqStart, ver, nmethods, cmd, atype,
                   hostLen, result, failAt, cryptoVars, threadVars>>

RqV4Port ==
    /\ pc = "rq_v4port" /\ Buffered >= Need
    /\ raw_addr' = raw_addr \o Field(2)
    /\ addr' = [kind |-> "ok", ip |-> addr.ip, port |-> BigEndian16(Field(2))]
    /\ pos' = pos + 2
    /\ pc' = "rq_reply"
    /\ UNCHANGED <<adapterVars, password, sockVars, rqStart, ver, nmethods, cmd, atype,
                   hostLen, result, failAt, cryptoVars, threadVars>>

RqV6 ==
    /\ pc = "rq_v6" /\ Buffered >= Need
    /\ LET buf == Field(18) IN
       /\ raw_addr' = raw_addr \o buf
       /\ addr' = [kind |-> "ok",
                   ip |-> [g \in 1..8 |-> BigEndian16(SubSeq(buf, (2 * g) - 1, 2 * g))],
                   port |-> BigEndian16(SubSeq(buf, 17, 18))]
    /\ pos' = pos + 18
    /\ pc' = "rq_reply"
    /\ UNCHANGED <<adapterVars, password, sockVars, rqStart, ver, nmethods, cmd, atype,
                   hostLen, result, failAt, cryptoVars, threadVars>>

RqHostLen ==
    /\ pc = "rq_hostlen" /\ Buffered >= Need
    /\ hostLen' = Field(1)[1]
    /\ raw_addr' = raw_addr \o Field(1)
    /\ pos' = pos + 1
    /\ pc' = "rq_host"
    /\ UNCHANGED <<adapterVars, password, sockVars, rqStart, ver, nmethods, cmd, atype,
                   addr, result, failAt, cryptoVars, threadVars>>

RqHost ==
    /\ pc = "rq_host" /\ Buffered >= Need
    /\ raw_addr' = raw_addr \o Field(hostLen)
    /\ pos' = pos + hostLen
    /\ \E r \in to_socket_addrs(Field(hostLen)) :
          /\ addr' = r
          /\ CASE r.kind = "ok" -> pc' = "rq_reply" /\ UNCHANGED <<result, failAt>>
               [] r.kind = "err" -> Fail(pc)
               [] r.kind = "none" -> Panic(pc)
    /\ UNCHANGED <<adapterVars, password, sockVars, rqStart, ver, nmethods, cmd, atype,
                   hostLen, cryptoVars, threadVars>>

(***************************************************************************)
(* connect: reply, upstream connection, first payload (main.rs:136-153)    *)
(***************************************************************************)
\* the reply left for after the upstream connection
RqReply_ReplyOmitted ==
    /\ pc = "rq_reply"
    /\ IF addr.kind = "ok"
       THEN pc' = "up_connect" /\ UNCHANGED <<result, failAt>>
       ELSE Fail(pc)
    /\ UNCHANGED <<adapterVars, password, sockVars, parseVars, cryptoVars, threadVars>>

\* stream.write(&[5,0,0,1,0,0,0,0,0,0])?; then `addr?` inside println!
RqReply ==
    /\ pc = "rq_reply"
    /\ IF SockWritable(cliPeer, cliShut)
       THEN /\ cliOut' = cliOut \o ConnectReply
            /\ IF addr.kind = "ok"
               THEN pc' = "up_connect" /\ UNCHANGED <<result, failAt>>
               ELSE Fail(pc)
       ELSE /\ Fail(pc)
            /\ UNCHANGED cliOut
    /\ UNCHANGED <<adapterVars, password, cliSent, cliArrived, cliRead, cliPeer, cliShut,
                   upConn, upSent, upArrived, upRead, upPeer, upShut, upOut,
                   parseVars, cryptoVars, threadVars>>

\* TcpStream::connect(cfg.server_addr)?; CryptoRead::new, CryptoWrite::new
UpConnect ==
    /\ pc = "up_connect"
    /\ \E ok \in BOOLEAN :
          IF ok
          THEN /\ upConn' = "open"
               /\ pc' = "first_write"
               /\ UNCHANGED <<result, failAt>>
          ELSE /\ upConn' = "refused"
               /\ Fail(pc)
    /\ enc' = Rc4New(password) /\ dec' = Rc4New(password)
    /\ UNCHANGED <<adapterVars, password, cliSent, cliArrived, cliRead, cliPeer, cliShut,
                   cliOut, upSent, upArrived, upRead, upPeer, upShut, upOut,
                   parseVars, ivW, ivBuf, threadVars>>

\* the first payload left out: the threads are spawned straight away
FirstWrite_AddressSkipped ==
    /\ pc = "first_write"
    /\ t1' = [t1 EXCEPT !.pc = "read"]
    /\ t2' = [t2 EXCEPT !.pc = "read"]
    /\ pc' = "join1"
    /\ UNCHANGED <<result, failAt, upOut, enc, ivW>>
    /\ UNCHANGED <<adapterVars, password, cliSent, cliArrived, cliRead, cliPeer, cliShut,
                   cliOut, upConn, upSent, upArrived, upRead, upPeer, upShut,
                   parseVars, dec, ivBuf, c2uWritten, u2cRead>>

\* conn_w.write(&raw_addr)?; then both copy threads are spawned
FirstWrite ==
    /\ pc = "first_write"
    /\ \E iv \in WriterIvs(enc) :
          LET w == CryptoWrite_data(enc, raw_addr, iv) IN
          /\ enc' = w.enc
          /\ ivW' = IF is_init(enc) THEN ivW ELSE iv
          /\ IF SockWritable(upPeer, upShut)
             THEN /\ upOut' = upOut \o w.data
                  /\ t1' = [t1 EXCEPT !.pc = "read"]
                  /\ t2' = [t2 EXCEPT !.pc = "read"]
                  /\ pc' = "join1"
                  /\ UNCHANGED <<result, failAt>>
             ELSE /\ Fail(pc)
                  /\ UNCHANGED <<upOut, t1, t2>>
    /\ UNCHANGED <<adapterVars, password, cliSent, cliArrived, cliRead, cliPeer, cliShut,
                   cliOut, upConn, upSent, upArrived, upRead, upPeer, upShut,
                   parseVars, dec, ivBuf, c2uWritten, u2cRead>>

(***************************************************************************)
(* The client->upstream thread (main.rs:161-170):                          *)
(*   io::copy(&mut stream, &mut conn_w)                                    *)
(* io::copy reads into its buffer and write_all()s what it read; a read of *)
(* 0 ends it with Ok, any error ends it with Err.                          *)
(***************************************************************************)
T1Read ==
    /\ t1.pc = "read"
    /\ LET r == CliRecv(BufCap) IN
       CASE r.kind = "data" ->
              /\ t1' = [t1 EXCEPT !.pc = "write",
                                  !.buf = SubSeq(cliSent, cliRead + 1, cliRead + r.n)]
              /\ cliRead' = cliRead + r.n
         [] r.kind = "eof" ->
              /\ t1' = [t1 EXCEPT !.pc = "done", !.end = "eof"]
              /\ UNCHANGED cliRead
         [] r.kind = "err" ->
              /\ t1' = [t1 EXCEPT !.pc = "shut_up", !.end = "err"]
              /\ UNCHANGED cliRead
         [] OTHER -> FALSE
    /\ UNCHANGED <<adapterVars, password, cliSent, cliArrived, cliPeer, cliShut, cliOut,
                   upConn, upSent, upArrived, upRead, upPeer, upShut, upOut,
                   pc, parseVars, result, failAt, cryptoVars, t2, c2uWritten,
                   u2cRead>>

\* write_all(&buf[..n]) -> CryptoWrite::write -> TcpStream::write
T1Write ==
    /\ t1.pc = "write"
    /\ \E iv \in WriterIvs(enc) :
          LET w == CryptoWrite_data(enc, t1.buf, iv) IN
          /\ enc' = w.enc
          /\ ivW' = IF is_init(enc) THEN ivW ELSE iv
          /\ IF SockWritable(upPeer, upShut)
             THEN /\ upOut' = upOut \o w.data
                  /\ c2uWritten' = c2uWritten \o t1.buf
                  /\ t1' = [t1 EXCEPT !.pc = "read", !.buf = <<>>]
             ELSE /\ t1' = [t1 EXCEPT !.pc = "shut_up", !.end = "err", !.buf = <<>>]
                  /\ UNCHANGED <<upOut, c2uWritten>>
    /\ UNCHANGED <<adapterVars, password, cliSent, cliArrived, cliRead, cliPeer, cliShut,
                   cliOut, upConn, upSent, upArrived, upRead, upPeer, upShut,
                   pc, parseVars, result, failAt, dec, ivBuf, t2, u2cRead>>

\* Err(e) => conn_w.shutdown(Shutdown::Both).unwrap()
T1ShutUp ==
    /\ t1.pc = "shut_up"
    /\ \E o \in SockShutdown(upPeer, upShut) :
          IF o = "ok"
          THEN /\ upShut' = TRUE
               /\ t1' = [t1 EXCEPT !.pc = "shut_cli", !.shut = @ \cup {"up"}]
          ELSE /\ t1' = [t1 EXCEPT !.pc = "panicked"]
               /\ UNCHANGED upShut
    /\ UNCHANGED <<adapterVars, password, cliSent, cliArrived, cliRead, cliPeer, cliShut,
                   cliOut, upConn, upSent, upArrived, upRead, upPeer, upOut,
                   pc, parseVars, result, failAt, cryptoVars, t2, c2uWritten,
                   u2cRead>>

\* stream.shutdown(Shutdown::Both).unwrap()
T1ShutCli ==
    /\ t1.pc = "shut_cli"
    /\ \E o \in SockShutdown(cliPeer, cliShut) :
          IF o = "ok"
          THEN /\ cliShut' = TRUE
               /\ t1' = [t1 EXCEPT !.pc = "done", !.shut = @ \cup {"cli"}]
          ELSE /\ t1' = [t1 EXCEPT !.pc = "panicked"]
               /\ UNCHANGED cliShut
    /\ UNCHANGED <<adapterVars, password, cliSent, cliArrived, cliRead, cliPeer, cliOut,
                   upConn, upSent, upArrived, upRead, upPeer, upShut, upOut,
                   pc, parseVars, result, failAt, cryptoVars, t2, c2uWritten,
                   u2cRead>>

(***************************************************************************)
(* The upstream->client thread (main.rs:173-182):                          *)
(*   io::copy(&mut conn_r, &mut stream_c)                                  *)
(* CryptoRead::read (stream.rs:31-49) first read_exact()s the 16-byte IV   *)
(* when the cipher is fresh, one underlying read at a time, then does one  *)
(* underlying read for the caller and decrypts what it got.                *)
(***************************************************************************)
T2ReadIv ==
    /\ t2.pc = "read" /\ ~is_init(dec)
    /\ LET r == UpRecv(IV_LEN - Len(ivBuf)) IN
       CASE r.kind = "data" ->
              LET iv == ivBuf \o SubSeq(upSent, upRead + 1, upRead + r.n) IN
              /\ ivBuf' = iv
              /\ upRead' = upRead + r.n
              /\ dec' = IF Len(iv) = IV_LEN THEN Rc4Init(dec, iv) ELSE dec
              /\ UNCHANGED t2
         [] r.kind \in {"eof", "err"} ->
              /\ t2' = [t2 EXCEPT !.pc = "shut_up", !.end = "err"]
              /\ UNCHANGED <<ivBuf, upRead, dec>>
         [] OTHER -> FALSE
    /\ UNCHANGED <<adapterVars, password, cliSent, cliArrived, cliRead, cliPeer, cliShut,
                   cliOut, upConn, upSent, upArrived, upPeer, upShut, upOut,
                   pc, parseVars, result, failAt, enc, ivW, t1, c2uWritten,
                   u2cRead>>

T2Read ==
    /\ t2.pc = "read" /\ is_init(dec)
    /\ LET r == UpRecv(BufCap) IN
       CASE r.kind = "data" ->
              LET d == CryptoRead_decrypt(dec, SubSeq(upSent, upRead + 1, upRead + r.n)) IN
              /\ dec' = d.rc
              /\ upRead' = upRead + r.n
              /\ t2' = [t2 EXCEPT !.pc = "write", !.buf = d.out]
              /\ u2cRead' = u2cRead \o d.out
         [] r.kind = "eof" ->
              /\ t2' = [t2 EXCEPT !.pc = "done", !.end = "eof"]
              /\ UNCHANGED <<dec, upRead, u2cRead>>
         [] r.kind = "err" ->
              /\ t2' = [t2 EXCEPT !.pc = "shut_up", !.end = "err"]
              /\ UNCHANGED <<dec, upRead, u2cRead>>
         [] OTHER -> FALSE
    /\ UNCHANGED <<adapterVars, password, cliSent, cliArrived, cliRead, cliPeer, cliShut,
                   cliOut, upConn, upSent, upArrived, upPeer, upShut, upOut,
                   pc, parseVars, result, failAt, enc, ivW, ivBuf, t1,
                   c2uWritten>>

\* write_all(&buf[..n]) -> TcpStream::write on the client socket
T2Write ==
    /\ t2.pc = "write"
    /\ IF SockWritable(cliPeer, cliShut)
       THEN /\ cliOut' = cliOut \o t2.buf
            /\ t2' = [t2 EXCEPT !.pc = "read", !.buf = <<>>]
       ELSE /\ t2' = [t2 EXCEPT !.pc = "shut_up", !.end = "err", !.buf = <<>>]
            /\ UNCHANGED cliOut
    /\ UNCHANGED <<adapterVars, password, cliSent, cliArrived, cliRead, cliPeer, cliShut,
                   upConn, upSent, upArrived, upRead, upPeer, upShut, upOut,
                   pc, parseVars, result, failAt, cryptoVars, t1, c2uWritten,
                   u2cRead>>

\* Err(e) => conn_r.shutdown(Shutdown::Both).unwrap()
T2ShutUp ==
    /\ t2.pc = "shut_up"
    /\ \E o \in SockShutdown(upPeer, upShut) :
          IF o = "ok"
          THEN /\ upShut' = TRUE
               /\ t2' = [t2 EXCEPT !.pc = "shut_cli", !.shut = @ \cup {"up"}]
          ELSE /\ t2' = [t2 EXCEPT !.pc = "panicked"]
               /\ UNCHANGED upShut
    /\ UNCHANGED <<adapterVars, password, cliSent, cliArrived, cliRead, cliPeer, cliShut,
                   cliOut, upConn, upSent, upArrived, upRead, upPeer, upOut,
                   pc, parseVars, result, failAt, cryptoVars, t1, c2uWritten,
                   u2cRead>>

\* stream_c.shutdown(Shutdown::Both).unwrap()
T2ShutCli ==
    /\ t2.pc = "shut_cli"
    /\ \E o \in SockShutdown(cliPeer, cliShut) :
          IF o = "ok"
          THEN /\ cliShut' = TRUE
               /\ t2' = [t2 EXCEPT !.pc = "done", !.shut = @ \cup {"cli"}]
          ELSE /\ t2' = [t2 EXCEPT !.pc = "panicked"]
               /\ UNCHANGED cliShut
    /\ UNCHANGED <<adapterVars, password, cliSent, cliArrived, cliRead, cliPeer, cliOut,
                   upConn, upSent, upArrived, upRead, upPeer, upShut, upOut,
                   pc, parseVars, result, failAt, cryptoVars, t1, c2uWritten,
                   u2cRead>>

(***************************************************************************)
(* connect: for handle in thread_vec { handle.join().unwrap(); } Ok(())    *)
(***************************************************************************)
Join1 ==
    /\ pc = "join1" /\ t1.pc \in {"done", "panicked"}
    /\ IF t1.pc = "panicked" THEN Panic(pc)
       ELSE pc' = "join2" /\ UNCHANGED <<result, failAt>>
    /\ UNCHANGED <<adapterVars, password, sockVars, parseVars, cryptoVars, threadVars>>

Join2 ==
    /\ pc = "join2" /\ t2.pc \in {"done", "panicked"}
    /\ IF t2.pc = "panicked" THEN Panic(pc)
       ELSE pc' = "closed" /\ result' = "ok" /\ UNCHANGED failAt
    /\ UNCHANGED <<adapterVars, password, sockVars, parseVars, cryptoVars, threadVars>>

Peer ==
    \/ ClientSend \/ ClientClose \/ ClientReset
    \/ UpstreamSend \/ UpstreamClose \/ UpstreamReset

Program ==
    \/ BufFill \/ BufFillFail
    \/ HsVer \/ HsNMethods \/ HsMethods \/ HsReply
    \/ RqHeader \/ RqV4Addr \/ RqV4Port \/ RqV6 \/ RqHostLen \/ RqHost
    \/ RqReply \/ UpConnect \/ FirstWrite
    \/ T1Read \/ T1Write \/ T1ShutUp \/ T1ShutCli
    \/ T2ReadIv \/ T2Read \/ T2Write \/ T2ShutUp \/ T2ShutCli
    \/ Join1 \/ Join2

Next == Peer \/ Program

Spec == Init /\ [][Next]_vars

\* every thread of the program that can take a step eventually takes one;
\* nothing is assumed of the peers
FairSpec == Spec /\ WF_vars(Program)

(***************************************************************************)
(* src/stream.rs: the encrypting writers over an arbitrary endpoint.       *)
(* CryptoWrite<W: Write> and Rc4Writer<S: AsyncWrite> accept any endpoint: *)
(* one write to it may fail, or accept any part of the bytes it is handed. *)
(* wr records the calls made, every request made to the endpoint with its  *)
(* outcome, and what each call returned.                                   *)
(***************************************************************************)
MaxCalls == 2

WriterPayloads == {<<>>, <<65>>, <<65, 66, 67>>}

\* Option<Rc4>
Some(rc) == [some |-> TRUE, rc |-> rc]

None == [some |-> FALSE]

NewWriter(kind, inner) ==
    [kind |-> kind, enc |-> inner, pc |-> "idle", pending |-> <<>>,
     calls |-> <<>>, reqs |-> <<>>, rets |-> <<>>, iv |-> <<>>, inits |-> 0]

WriterInit ==
    /\ password \in Passwords
    /\ cliSent = <<>> /\ upSent = <<>>
    /\ SessionStart
    /\ wr \in {NewWriter("CryptoWrite", Some(Rc4New(password))),
               NewWriter("Rc4Writer", Some(Rc4New(password))),
               NewWriter("Rc4Writer", None)}
    /\ rd = NoReader
    /\ ci = NoCipher /\ proc = NoProcess

\* what one write of data to the endpoint may do: fail, or accept n bytes
EndpointWrite(data) ==
    {[err |-> TRUE, n |-> 0]}
    \cup {[err |-> FALSE, n |-> k] : k \in {0, 1, Len(data) - 1, Len(data)} \cap (0..Len(data))}

WriteOk(n) == [ok |-> TRUE, n |-> n]

WriteErr == [ok |-> FALSE, n |-> 0]

\* the request about to be made is the first one of the current call
FirstRequest == wr.reqs = <<>> \/ wr.reqs[Len(wr.reqs)].call # Len(wr.calls)

\* CryptoWrite::write: let n = self.conn_w.write(data)?; Ok(n)
CryptoWriteWrite ==
    /\ wr.kind = "CryptoWrite" /\ wr.pc = "idle" /\ Len(wr.calls) < MaxCalls
    /\ \E buf \in WriterPayloads, iv \in WriterIvs(wr.enc.rc) :
          LET fresh == ~is_init(wr.enc.rc)
              w == CryptoWrite_data(wr.enc.rc, buf, iv)
          IN  \E res \in EndpointWrite(w.data) :
                 wr' = [wr EXCEPT
                          !.enc = Some(w.enc),
                          !.calls = Append(@, buf),
                          !.iv = IF fresh THEN iv ELSE @,
                          !.inits = IF fresh THEN @ + 1 ELSE @,
                          !.reqs = Append(@, [call |-> Len(wr.calls) + 1, first |-> TRUE,
                                              data |-> w.data, res |-> res]),
                          !.rets = Append(@, IF res.err THEN WriteErr ELSE WriteOk(res.n))]
    /\ UNCHANGED <<rd, ci, proc, password, sessionVars>>

\* Rc4Writer::write with a fresh cipher: init, data = IV ++ ciphertext
Rc4Writer_first(inner, buf, iv) ==
    Bind(Rc4Init(inner, iv),
         LAMBDA e1 :
            Bind(crypt_inplace(e1, buf),
                 LAMBDA c : [enc |-> c.rc, data |-> iv \o c.out]))

\* Rc4Writer::encrypt: in place when there is a cipher, untouched otherwise
Rc4Writer_encrypt(inner, buf) ==
    IF inner.some
    THEN Bind(crypt_inplace(inner.rc, buf),
              LAMBDA c : [enc |-> Some(c.rc), data |-> c.out])
    ELSE [enc |-> inner, data |-> buf]

\* Rc4Writer::write, first branch: let n = self.w.write(&data).await?;
\* return Ok(()) whatever n is
Rc4WriterFirstWrite ==
    /\ wr.kind = "Rc4Writer" /\ wr.pc = "idle" /\ Len(wr.calls) < MaxCalls
    /\ wr.enc.some /\ ~is_init(wr.enc.rc)
    /\ \E buf \in WriterPayloads, iv \in generate_iv :
          LET w == Rc4Writer_first(wr.enc.rc, buf, iv)
          IN  \E res \in EndpointWrite(w.data) :
                 wr' = [wr EXCEPT
                          !.enc = Some(w.enc),
                          !.calls = Append(@, buf),
                          !.iv = iv,
                          !.inits = @ + 1,
                          !.reqs = Append(@, [call |-> Len(wr.calls) + 1, first |-> TRUE,
                                              data |-> w.data, res |-> res]),
                          !.rets = Append(@, IF res.err THEN WriteErr ELSE WriteOk(0))]
    /\ UNCHANGED <<rd, ci, proc, password, sessionVars>>

\* Rc4Writer::write, the other branch: self.encrypt(buf), then write_all(&buf)
\* starts (it returns at once when there is nothing to write)
Rc4WriterWrite ==
    /\ wr.kind = "Rc4Writer" /\ wr.pc = "idle" /\ Len(wr.calls) < MaxCalls
    /\ IF wr.enc.some THEN is_init(wr.enc.rc) ELSE TRUE
    /\ \E buf \in WriterPayloads :
          LET e == Rc4Writer_encrypt(wr.enc, buf)
          IN  wr' = [wr EXCEPT
                       !.enc = e.enc,
                       !.calls = Append(@, buf),
                       !.pending = e.data,
                       !.pc = IF e.data = <<>> THEN "idle" ELSE "write_all",
                       !.rets = IF e.data = <<>> THEN Append(@, WriteOk(0)) ELSE @]
    /\ UNCHANGED <<rd, ci, proc, password, sessionVars>>

\* one round of write_all: write the rest; 0 accepted is an error (WriteZero)
Rc4WriterWriteAll ==
    /\ wr.kind = "Rc4Writer" /\ wr.pc = "write_all"
    /\ \E res \in EndpointWrite(wr.pending) :
          LET failed == res.err \/ res.n = 0
              rest == IF failed THEN <<>> ELSE Drop(wr.pending, res.n)
          IN  wr' = [wr EXCEPT
                       !.reqs = Append(@, [call |-> Len(wr.calls), first |-> FirstRequest,
                                           data |-> wr.pending, res |-> res]),
                       !.pending = rest,
                       !.pc = IF rest = <<>> THEN "idle" ELSE "write_all",
                       !.rets = IF failed THEN Append(@, WriteErr)
                                ELSE IF rest = <<>> THEN Append(@, WriteOk(0))
                                ELSE @]
    /\ UNCHANGED <<rd, ci, proc, password, sessionVars>>

WriterNext ==
    \/ CryptoWriteWrite
    \/ Rc4WriterFirstWrite \/ Rc4WriterWrite \/ Rc4WriterWriteAll

WriterSpec == WriterInit /\ [][WriterNext]_vars

(***************************************************************************)
(* src/stream.rs: the encrypting readers over an arbitrary endpoint.       *)
(* The endpoint holds the stream rd.src; one read of it returns any        *)
(* non-empty part of what is left that fits the buffer it is given; when   *)
(* nothing is left every read returns 0 (rd.end = "eof") or fails          *)
(* (rd.end = "err").  rd records what each call returned and the plaintext *)
(* the callers got.                                                        *)
(***************************************************************************)
MaxStream == 3

MaxReadBuf == 2

MaxReads == 3

ReaderPayload == [k \in 1..MaxStream |-> 8 + k]

\* where the stream may end: before any byte, inside the IV, at its end and
\* at every byte after it
ReaderCuts == {0, IvCut} \cup (IV_LEN..(IV_LEN + MaxStream))

ReaderStreams == {Take(iv \o ReaderPayload, n) : iv \in IVs, n \in ReaderCuts}

NewReader(kind, inner, src, end) ==
    [kind |-> kind, dec |-> inner, pc |-> "idle", iv |-> <<>>, ivSplit |-> FALSE,
     buflen |-> 0, src |-> src, pos |-> 0, end |-> end, out |-> <<>>,
     rets |-> <<>>, inits |-> 0, ivUsed |-> <<>>]

ReaderInit ==
    /\ password \in Passwords
    /\ cliSent = <<>> /\ upSent = <<>>
    /\ SessionStart
    /\ wr = NoWriter
    /\ ci = NoCipher /\ proc = NoProcess
    /\ \E src \in ReaderStreams, end \in {"eof", "err"} :
          rd \in {NewReader("CryptoRead", Some(Rc4New(password)), src, end),
                  NewReader("Rc4Reader", Some(Rc4New(password)), src, end),
                  NewReader("Rc4Reader", None, src, end)}

ReadOk(n) == [err |-> FALSE, n |-> n]

ReadErr == [err |-> TRUE, n |-> 0]

\* what one read of the endpoint into a buffer of want bytes may return
EndpointRead(want) == 1..Min(want, Len(rd.src) - rd.pos)

\* read(buf) is entered: `if !is_init()` decides whether the IV comes first;
\* `let mut iv = [0; IV_LEN]` is a new buffer in every call
ReaderRead ==
    /\ rd.kind \in {"CryptoRead", "Rc4Reader"}
    /\ rd.pc = "idle" /\ Len(rd.rets) < MaxReads
    /\ \E len \in 1..MaxReadBuf :
          rd' = [rd EXCEPT
                   !.buflen = len,
                   !.iv = <<>>,
                   !.pc = IF rd.dec.some /\ ~is_init(rd.dec.rc)
                          THEN "read_iv" ELSE "read"]
    /\ UNCHANGED <<wr, ci, proc, password, sessionVars>>

\* read in place of read_exact: whatever one underlying read returns is
\* taken for the IV, the rest of the zeroed buffer with it
ReaderReadIv_SingleRead ==
    /\ rd.kind \in {"CryptoRead", "Rc4Reader"} /\ rd.pc = "read_iv"
    /\ IF rd.pos < Len(rd.src)
       THEN \E n \in EndpointRead(IV_LEN) :
               LET iv == SubSeq(rd.src, rd.pos + 1, rd.pos + n) \o [k \in 1..(IV_LEN - n) |-> 0]
               IN  rd' = [rd EXCEPT
                            !.pos = @ + n,
                            !.iv = iv,
                            !.dec = Some(Rc4Init(rd.dec.rc, iv)),
                            !.inits = @ + 1,
                            !.ivUsed = iv,
                            !.pc = "read"]
       ELSE rd' = [rd EXCEPT !.rets = Append(@, ReadErr), !.pc = "idle"]
    /\ UNCHANGED <<wr, ci, proc, password, sessionVars>>

\* the end of the stream inside the IV reported as a clean EOF
ReaderReadIv_EofIsZero ==
    /\ rd.kind \in {"CryptoRead", "Rc4Reader"} /\ rd.pc = "read_iv"
    /\ IF rd.pos < Len(rd.src)
       THEN \E n \in EndpointRead(IV_LEN - Len(rd.iv)) :
               LET iv == rd.iv \o SubSeq(rd.src, rd.pos + 1, rd.pos + n)
                   full == Len(iv) = IV_LEN
               IN  rd' = [rd EXCEPT
                            !.pos = @ + n,
                            !.iv = iv,
                            !.ivSplit = @ \/ ~full,
                            !.dec = IF full THEN Some(Rc4Init(rd.dec.rc, iv)) ELSE @,
                            !.inits = IF full THEN @ + 1 ELSE @,
                            !.ivUsed = IF full THEN iv ELSE @,
                            !.pc = IF full THEN "read" ELSE "read_iv"]
       ELSE rd' = [rd EXCEPT
                     !.rets = Append(@, IF rd.end = "eof" THEN ReadOk(0) ELSE ReadErr),
                     !.pc = "idle"]
    /\ UNCHANGED <<wr, ci, proc, password, sessionVars>>

\* one underlying read of read_exact(&mut iv)?; dec.init(&iv) once it is full
ReaderReadIv ==
    /\ rd.kind \in {"CryptoRead", "Rc4Reader"} /\ rd.pc = "read_iv"
    /\ IF rd.pos < Len(rd.src)
       THEN \E n \in EndpointRead(IV_LEN - Len(rd.iv)) :
               LET iv == rd.iv \o SubSeq(rd.src, rd.pos + 1, rd.pos + n)
                   full == Len(iv) = IV_LEN
               IN  rd' = [rd EXCEPT
                            !.pos = @ + n,
                            !.iv = iv,
                            !.ivSplit = @ \/ ~full,
                            !.dec = IF full THEN Some(Rc4Init(rd.dec.rc, iv)) ELSE @,
                            !.inits = IF full THEN @ + 1 ELSE @,
                            !.ivUsed = IF full THEN iv ELSE @,
                            !.pc = IF full THEN "read" ELSE "read_iv"]
       ELSE rd' = [rd EXCEPT !.rets = Append(@, ReadErr), !.pc = "idle"]
    /\ UNCHANGED <<wr, ci, proc, password, sessionVars>>

\* let n = conn_r.read(buf)?; if n > 0 { decrypt buf[..n] }; Ok(n)
ReaderReadPayload ==
    /\ rd.kind \in {"CryptoRead", "Rc4Reader"} /\ rd.pc = "read"
    /\ IF rd.pos < Len(rd.src)
       THEN \E n \in EndpointRead(rd.buflen) :
               LET chunk == SubSeq(rd.src, rd.pos + 1, rd.pos + n)
                   d == IF rd.dec.some THEN CryptoRead_decrypt(rd.dec.rc, chunk)
                        ELSE [rc |-> 0, out |-> chunk]
               IN  rd' = [rd EXCEPT
                            !.pos = @ + n,
                            !.dec = IF rd.dec.some THEN Some(d.rc) ELSE @,
                            !.out = @ \o d.out,
                            !.rets = Append(@, ReadOk(n)),
                            !.pc = "idle"]
       ELSE rd' = [rd EXCEPT
                     !.rets = Append(@, IF rd.end = "eof" THEN ReadOk(0) ELSE ReadErr),
                     !.pc = "idle"]
    /\ UNCHANGED <<wr, ci, proc, password, sessionVars>>

ReaderNext == ReaderRead \/ ReaderReadIv \/ ReaderReadPayload

ReaderSpec == ReaderInit /\ [][ReaderNext]_vars

(***************************************************************************)
(* src/rc4.rs: the cipher used on its own, as zeor_bytes_test does:        *)
(* Rc4::new(password), init(iv), then crypt_inplace on one buffer after    *)
(* another.  ci.a and ci.b are two instances constructed with one          *)
(* password; each records the IV it was initialised with, the bytes it was *)
(* given, the bytes it produced and the number of crypt_inplace calls made *)
(* on it.                                                                  *)
(***************************************************************************)
\* the most bytes an instance is given in short buffers
MaxFed == 2

\* the length of the one long buffer, which takes the index i to the end of
\* the state array
LongRun == 254

\* "pw" and "password"
CipherPasswords == Passwords \cup {<<112, 97, 115, 115, 119, 111, 114, 100>>}

\* sixteen bytes, and "iv"
CipherIvs == {IVa, <<105, 118>>}

\* two buffers of one byte, and the two bytes in one buffer
CipherChunks == {<<0>>, <<7>>, <<0, 7>>}

LongChunk == [k \in 1..LongRun |-> 0]

NewCipher(pw) ==
    [rc |-> Rc4New(pw), iv |-> <<>>, fed |-> <<>>, out |-> <<>>, calls |-> 0,
     long |-> FALSE]

CipherInit ==
    /\ password \in Passwords
    /\ cliSent = <<>> /\ upSent = <<>>
    /\ SessionStart
    /\ wr = NoWriter /\ rd = NoReader /\ proc = NoProcess
    /\ ci \in {[kind |-> "pair", a |-> NewCipher(p), b |-> NewCipher(p)] :
                p \in CipherPasswords}

\* the key taken from some IV, not from the one given
CipherInitIv_KeyIgnoresIv ==
    /\ ci.kind = "pair"
    /\ \E x \in {"a", "b"}, iv \in CipherIvs, other \in CipherIvs :
          /\ ~is_init(ci[x].rc)
          /\ ci' = [ci EXCEPT ![x].rc = Rc4Init(@, other), ![x].iv = iv]
    /\ UNCHANGED <<wr, rd, proc, password, sessionVars>>

\* rc.init(iv); every caller in the repository initialises a cipher once
CipherInitIv ==
    /\ ci.kind = "pair"
    /\ \E x \in {"a", "b"}, iv \in CipherIvs :
          /\ ~is_init(ci[x].rc)
          /\ ci' = [ci EXCEPT ![x].rc = Rc4Init(@, iv), ![x].iv = iv]
    /\ UNCHANGED <<wr, rd, proc, password, sessionVars>>

\* rc.crypt_inplace(buf) on instance x
Crypt(x, buf) ==
    LET c == crypt_inplace(ci[x].rc, buf)
    IN  ci' = [ci EXCEPT ![x].rc = c.rc,
                         ![x].fed = @ \o buf,
                         ![x].out = @ \o c.out,
                         ![x].calls = @ + 1]

\* i and j start from 0 again in every call
CipherCrypt_IndicesRestart ==
    /\ ci.kind = "pair"
    /\ \E x \in {"a", "b"}, buf \in CipherChunks :
          /\ is_init(ci[x].rc)
          /\ Len(ci[x].fed) + Len(buf) <= MaxFed + (IF ci[x].long THEN LongRun ELSE 0)
          /\ LET c == crypt_inplace([ci[x].rc EXCEPT !.i = 0, !.j = 0], buf)
             IN  ci' = [ci EXCEPT ![x].rc = c.rc,
                                  ![x].fed = @ \o buf,
                                  ![x].out = @ \o c.out,
                                  ![x].calls = @ + 1]
    /\ UNCHANGED <<wr, rd, proc, password, sessionVars>>

CipherCrypt ==
    /\ ci.kind = "pair"
    /\ \E x \in {"a", "b"}, buf \in CipherChunks :
          /\ is_init(ci[x].rc)
          /\ Len(ci[x].fed) + Len(buf) <= MaxFed + (IF ci[x].long THEN LongRun ELSE 0)
          /\ Crypt(x, buf)
    /\ UNCHANGED <<wr, rd, proc, password, sessionVars>>

\* the first buffer of instance a is the long one
CipherCryptLong ==
    /\ ci.kind = "pair"
    /\ is_init(ci.a.rc) /\ ci.a.calls = 0
    /\ LET c == crypt_inplace(ci.a.rc, LongChunk)
       IN  ci' = [ci EXCEPT !.a.rc = c.rc, !.a.fed = LongChunk, !.a.out = c.out,
                            !.a.calls = 1, !.a.long = TRUE]
    /\ UNCHANGED <<wr, rd, proc, password, sessionVars>>

\* instance b is given what instance a produced: all that is left of it,
\* or the next byte of it (of the short buffers only)
CipherPipe ==
    /\ ci.kind = "pair"
    /\ is_init(ci.b.rc)
    /\ Len(ci.b.fed) < Len(ci.a.out)
    /\ ci.b.fed = Take(ci.a.out, Len(ci.b.fed))
    /\ \E n \in {Len(ci.a.out) - Len(ci.b.fed)} \cup (IF ci.a.long THEN {} ELSE {1}) :
          Crypt("b", SubSeq(ci.a.out, Len(ci.b.fed) + 1, Len(ci.b.fed) + n))
    /\ UNCHANGED <<wr, rd, proc, password, sessionVars>>

CipherNext == CipherInitIv \/ CipherCrypt \/ CipherCryptLong \/ CipherPipe

CipherSpec == CipherInit /\ [][CipherNext]_vars

(***************************************************************************)
(* src/main.rs, main: the accept loop and the threads it spawns.           *)
(*   for stream in listener.incoming() {                                   *)
(*       let stream = stream?;                                             *)
(*       thread::spawn(move || handle_client(stream, cfg).unwrap_or_else…) *)
(*   }                                                                     *)
(* incoming() never ends, so the loop is left only by `?` on a failed      *)
(* accept, which returns Err from main; the joins after the loop are never *)
(* reached.  When main has returned the runtime ends the process, and      *)
(* with it every thread that is still running.  A session thread is at     *)
(* "handshake", "connect" (request and upstream connection), "proxying"    *)
(* (the copy loops run) or "ended" (handle_client has returned).           *)
(***************************************************************************)
MaxSessions == 3

NewSession == [at |-> "handshake", alive |-> TRUE]

MainInit ==
    /\ password \in Passwords
    /\ cliSent = <<>> /\ upSent = <<>>
    /\ SessionStart
    /\ wr = NoWriter /\ rd = NoReader /\ ci = NoCipher
    /\ proc = [kind |-> "process", main |-> "accept", threads |-> <<>>]

\* Some(Ok(stream)): a session thread is spawned and its handle pushed
MainAccept ==
    /\ proc.kind = "process" /\ proc.main = "accept"
    /\ Len(proc.threads) < MaxSessions
    /\ proc' = [proc EXCEPT !.threads = Append(@, NewSession)]
    /\ UNCHANGED <<wr, rd, ci, password, sessionVars>>

\* Some(Err(e)): `stream?` returns Err(e) from main
MainAcceptFail ==
    /\ proc.kind = "process" /\ proc.main = "accept"
    /\ proc' = [proc EXCEPT !.main = "returned"]
    /\ UNCHANGED <<wr, rd, ci, password, sessionVars>>

\* main has returned: the process exits and its threads stop where they are
ProcessExit ==
    /\ proc.kind = "process" /\ proc.main = "returned"
    /\ proc' = [proc EXCEPT
                  !.main = "exited",
                  !.threads = [k \in 1..Len(@) |->
                                 IF @[k].at = "ended" THEN @[k]
                                 ELSE [@[k] EXCEPT !.alive = FALSE]]]
    /\ UNCHANGED <<wr, rd, ci, password, sessionVars>>

\* handle_client in one of the threads: handshake(..)?; connect(..)?, which
\* returns when its copy loops have been joined; either may fail before
SessionStep ==
    /\ proc.kind = "process" /\ proc.main # "exited"
    /\ \E k \in 1..Len(proc.threads) :
          /\ proc.threads[k].at # "ended"
          /\ \E to \in (CASE proc.threads[k].at = "handshake" -> {"connect", "ended"}
                          [] proc.threads[k].at = "connect" -> {"proxying", "ended"}
                          [] OTHER -> {"ended"}) :
                proc' = [proc EXCEPT !.threads[k].at = to]
    /\ UNCHANGED <<wr, rd, ci, password, sessionVars>>

MainNext == MainAccept \/ MainAcceptFail \/ ProcessExit \/ SessionStep

MainSpec == MainInit /\ [][MainNext]_vars

(***************************************************************************)
(* Properties of the session.                                              *)
(***************************************************************************)
HsPcs == {"hs_ver", "hs_nmethods", "hs_methods", "hs_reply"}

RqParsePcs == {"rq_header", "rq_v4addr", "rq_v4port", "rq_v6", "rq_hostlen", "rq_host"}

ThreadsNeverStarted == t1.pc = "idle" /\ t2.pc = "idle"

\* the whole of data encrypted as one stream by a fresh cipher
\* the cipher as init leaves it, for every password and IV of the model
KeyedCiphers ==
    {[pw |-> pw, iv |-> iv, rc |-> Rc4Init(Rc4New(pw), iv)] : pw \in Passwords, iv \in IVs}

KeyedCipher(pw, iv) == (CHOOSE r \in KeyedCiphers : r.pw = pw /\ r.iv = iv).rc

OneShot(pw, iv, data) == crypt_inplace(KeyedCipher(pw, iv), data).out

\* C1: whenever a copy loop's thread has finished, by EOF or by error, it
\* has invoked shutdown(Both) on the upstream socket and on the client socket.
C1_ShutdownOnEveryExit ==
    /\ t1.pc = "done" => t1.shut = {"up", "cli"}
    /\ t2.pc = "done" => t2.shut = {"up", "cli"}

\* C2: once the client->upstream loop has read EOF, eventually the upstream
\* socket is shut down, the other loop has ended and connect has returned;
\* and the same with the two directions exchanged.
C2_CloseEndsSession ==
    /\ (t1.end = "eof") ~> (upShut /\ t2.pc = "done" /\ pc = "closed")
    /\ (t2.end = "eof") ~> (cliShut /\ t1.pc = "done" /\ pc = "closed")

\* C3: what has been written upstream is one IV followed by the encryption,
\* as one stream, of raw_addr and then of the client bytes the relay wrote:
\* the IV is there once, raw_addr comes first, no relayed byte precedes them.
C3_UpstreamStartsWithIvAndAddress ==
    /\ upOut = <<>> => c2uWritten = <<>>
    /\ upOut # <<>> =>
          /\ Len(ivW) = IV_LEN
          /\ upOut = ivW \o OneShot(password, ivW, raw_addr \o c2uWritten)

C3_Witness ==
    /\ c2uWritten # <<>>
    /\ Len(upOut) = IV_LEN + Len(raw_addr) + Len(c2uWritten)

\* the length the address encoding must have for its type
RawEncodingLen ==
    CASE atype = ATYP_IPV4 -> 1 + 4 + 2
      [] atype = ATYPE_IPV6 -> 1 + 16 + 2
      [] atype = ATYPE_HOST -> 1 + 1 + hostLen + 2
      [] OTHER -> 0

\* C4: after a successful parse raw_addr is the bytes received from the type
\* tag on, tag ++ address ++ port, of the length its type fixes; an IPv4
\* endpoint is the four address bytes with the big-endian port, and the
\* request [5,1,0,1,1,2,3,4,0,80] gives 1.2.3.4:80 and [1,1,2,3,4,0,80].
C4_RawEncodingIsWireBytes ==
    addr.kind = "ok" =>
       /\ Len(raw_addr) = RawEncodingLen
       /\ raw_addr = SubSeq(cliSent, rqStart + 4, rqStart + 3 + RawEncodingLen)
       /\ atype = ATYP_IPV4 =>
             /\ addr.ip = SubSeq(raw_addr, 2, 5)
             /\ addr.port = (raw_addr[6] * 256) + raw_addr[7]
       /\ SubSeq(cliSent, rqStart + 1, rqStart + 10) = ReqV4 =>
             /\ addr = [kind |-> "ok", ip |-> <<1, 2, 3, 4>>, port |-> 80]
             /\ raw_addr = <<1, 1, 2, 3, 4, 0, 80>>

\* request parsing failed: a read of the request failed or was rejected, or
\* the address type was not recognised (found out at `addr?`)
RequestParseFailed ==
    /\ result = "err"
    /\ \/ failAt \in RqParsePcs
       \/ failAt = "rq_reply" /\ addr.kind = "err"

\* C5: when request parsing fails the client has been sent nothing but the
\* handshake reply, no upstream connection was opened and no copy loop runs.
C5_ParseFailureIsSilent ==
    RequestParseFailed =>
       /\ cliOut = HandshakeReply
       /\ upConn = "none"
       /\ ThreadsNeverStarted

\* C6: the upstream connection is attempted only after the fixed reply has
\* been written to the client, the reply is the same whether the connection
\* then succeeds or fails, and a failed connection ends the session with an
\* error, nothing written upstream and no copy loop started.
C6_ReplyBeforeConnect ==
    /\ (pc = "up_connect" \/ upConn # "none") =>
          /\ addr.kind = "ok"
          /\ Take(cliOut, 12) = HandshakeReply \o ConnectReply
    /\ upConn = "refused" =>
          /\ result = "err" /\ failAt = "up_connect"
          /\ cliOut = HandshakeReply \o ConnectReply
          /\ upOut = <<>>
          /\ ThreadsNeverStarted

C6_Witness ==
    /\ upConn = "refused"
    /\ cliOut = HandshakeReply \o ConnectReply

\* the client's input ended before the handshake could read what it needed
HandshakeInputEndedEarly ==
    /\ cliPeer # "open"
    /\ cliRead < 2 \/ cliRead < 2 + cliSent[2]

\* C7: the handshake parses the version, the count N and N method bytes,
\* 2 + N bytes in all, before it writes; with version 5 it writes exactly
\* [5,0], whatever the methods; with another version or an input that ends
\* early it fails and has written nothing.
C7_HandshakeContract ==
    /\ pc = "hs_reply" =>
          /\ ver = SOCKS5_VER /\ cliSent[1] = SOCKS5_VER
          /\ nmethods = cliSent[2]
          /\ pos = 2 + nmethods
          /\ cliOut = <<>>
    /\ pc \in RqParsePcs => cliOut = HandshakeReply
    /\ (pc \notin HsPcs /\ failAt \notin HsPcs) =>
          /\ cliSent[1] = SOCKS5_VER
          /\ Take(cliOut, 2) = HandshakeReply
    /\ failAt \in HsPcs => cliOut = <<>>
    /\ failAt \in {"hs_ver", "hs_nmethods", "hs_methods"} =>
          \/ failAt = "hs_ver" /\ cliRead > 0 /\ cliSent[1] # SOCKS5_VER
          \/ HandshakeInputEndedEarly
    /\ (cliRead > 0 /\ cliSent[1] # SOCKS5_VER) => pc \in {"hs_ver", "aborted"}

C7_Witness ==
    /\ pc = "rq_header"
    /\ nmethods = 2 /\ 0 \notin {cliSent[3], cliSent[4]}
    /\ cliOut = HandshakeReply

\* the payloads of the calls 1..c, one after the other
RECURSIVE WrittenUpTo(_)
WrittenUpTo(c) == IF c = 0 THEN <<>> ELSE WrittenUpTo(c - 1) \o wr.calls[c]

\* what call c has to hand to the endpoint: the IV when it is the first call,
\* then the part of the one ciphertext stream that belongs to its payload
HandedBy(c) ==
    (IF c = 1 THEN wr.iv ELSE <<>>)
    \o SubSeq(OneShot(password, wr.iv, WrittenUpTo(c)),
              Len(WrittenUpTo(c - 1)) + 1, Len(WrittenUpTo(c)))

RequestsOf(c) == {k \in 1..Len(wr.reqs) : wr.reqs[k].call = c}

\* C8: on an encrypting writer the first call hands the endpoint, in one
\* request, the 16-byte IV followed by the ciphertext of its payload, every
\* later call hands it the ciphertext of its payload and nothing else (a
\* further request of the same call carries only what the endpoint has not
\* yet accepted), the ciphertext is one continuous stream, and the cipher is
\* initialised once.
C8_WriterHandsIvOnce ==
    (wr.kind \in {"CryptoWrite", "Rc4Writer"} /\ wr.enc.some) =>
       /\ wr.inits = (IF wr.calls = <<>> THEN 0 ELSE 1)
       /\ wr.calls # <<>> => Len(wr.iv) = IV_LEN /\ is_init(wr.enc.rc)
       /\ \A k \in 1..Len(wr.reqs) :
             LET r == wr.reqs[k] IN
             IF r.first
             THEN /\ r.data = HandedBy(r.call)
                  /\ Len(r.data) = (IF r.call = 1 THEN IV_LEN ELSE 0) + Len(wr.calls[r.call])
             ELSE /\ k > 1 /\ r.call > 1
                  /\ wr.reqs[k - 1].call = r.call
                  /\ ~wr.reqs[k - 1].res.err
                  /\ r.data = Drop(wr.reqs[k - 1].data, wr.reqs[k - 1].res.n)
       /\ \A c \in 1..Len(wr.calls) :
             /\ Cardinality({k \in RequestsOf(c) : wr.reqs[k].first}) <= 1
             /\ (c = 1 \/ wr.kind = "CryptoWrite") => Cardinality(RequestsOf(c)) = 1
             /\ (c <= Len(wr.rets) /\ wr.calls[c] # <<>>) => RequestsOf(c) # {}

C8_Witness ==
    /\ wr.kind = "CryptoWrite"
    /\ Len(wr.rets) = 2
    /\ wr.calls[1] # <<>> /\ wr.calls[2] # <<>>
    /\ Len(wr.reqs[1].data) = IV_LEN + Len(wr.calls[1])
    /\ Len(wr.reqs[2].data) = Len(wr.calls[2])

\* the number of bytes the calls returned to their callers
RECURSIVE Returned(_)
Returned(rets) ==
    IF rets = <<>> THEN 0
    ELSE (IF rets[1].err THEN 0 ELSE rets[1].n) + Returned(Tail(rets))

\* C9: however the endpoint cuts the stream into reads, once an encrypting
\* reader has its cipher it has initialised it once, from the first 16 bytes
\* of the stream, and its callers have got the decryption, as one stream, of
\* the bytes from the 17th up to the last one read, the cipher having
\* advanced by exactly that many bytes; before that they have got nothing.
C9_ReaderStripsIv ==
    (rd.kind \in {"CryptoRead", "Rc4Reader"} /\ rd.dec.some) =>
       IF is_init(rd.dec.rc)
       THEN /\ rd.inits = 1
            /\ rd.ivUsed = Take(rd.src, IV_LEN)
            /\ rd.pos >= IV_LEN
            /\ rd.pos = IV_LEN + Len(rd.out)
            /\ Returned(rd.rets) = Len(rd.out)
            /\ rd.out = OneShot(password, rd.ivUsed, SubSeq(rd.src, IV_LEN + 1, rd.pos))
            /\ rd.dec.rc = crypt_inplace(KeyedCipher(password, rd.ivUsed),
                                         SubSeq(rd.src, IV_LEN + 1, rd.pos)).rc
       ELSE /\ rd.inits = 0
            /\ rd.pos < IV_LEN
            /\ rd.out = <<>> /\ Returned(rd.rets) = 0

C9_Witness ==
    /\ rd.kind = "CryptoRead"
    /\ rd.ivSplit
    /\ Len(rd.rets) > 1
    /\ Len(rd.out) = MaxStream

\* C10: when the stream ends, by EOF or by a failure, before its 16th byte,
\* every read of an encrypting reader returns an error, none returns a
\* count, 0 or other, and the callers get no byte.
C10_ShortIvIsError ==
    (rd.kind \in {"CryptoRead", "Rc4Reader"} /\ rd.dec.some /\ Len(rd.src) < IV_LEN) =>
       /\ \A k \in 1..Len(rd.rets) : rd.rets[k].err
       /\ rd.out = <<>>
       /\ ~is_init(rd.dec.rc)

C10_Witness ==
    /\ rd.kind = "CryptoRead" /\ rd.end = "eof"
    /\ Len(rd.src) = IvCut /\ rd.pos = IvCut
    /\ rd.rets # <<>>

\* a request of which the endpoint accepted only a part
ShortWrite(r) == ~r.res.err /\ r.res.n < Len(r.data)

\* C11: when the endpoint accepts fewer bytes than an encrypting writer
\* asked it to write, on the first request or on a later one, the call that
\* made the request returns an error, and it makes no further request for
\* the rest.
C11_ShortWriteIsError ==
    (wr.kind \in {"CryptoWrite", "Rc4Writer"} /\ wr.enc.some) =>
       \A k \in 1..Len(wr.reqs) :
          ShortWrite(wr.reqs[k]) =>
             /\ wr.reqs[k].call <= Len(wr.rets) => ~wr.rets[wr.reqs[k].call].ok
             /\ \A m \in (k + 1)..Len(wr.reqs) : wr.reqs[m].call # wr.reqs[k].call

(***************************************************************************)
(* Properties of the cipher.                                               *)
(***************************************************************************)
\* the cipher as init leaves it, for every password and IV of the instances
FreshCiphers ==
    {[pw |-> pw, iv |-> iv, rc |-> Rc4Init(Rc4New(pw), iv)] :
        pw \in CipherPasswords, iv \in CipherIvs}

FreshCipher(pw, iv) == (CHOOSE r \in FreshCiphers : r.pw = pw /\ r.iv = iv).rc

\* one crypt_inplace call on all the bytes instance x was given, made on a
\* cipher fresh from init with the password and IV of x
InOneCall(x) == crypt_inplace(FreshCipher(ci[x].rc.password, ci[x].iv), ci[x].fed)

\* both instances initialised, from the same password and the same IV
SameKey ==
    /\ is_init(ci.a.rc) /\ is_init(ci.b.rc)
    /\ ci.a.rc.password = ci.b.rc.password
    /\ ci.a.iv = ci.b.iv

\* C12: when a second cipher, initialised from the same password and IV, is
\* passed from its first keystream byte on what the first cipher produced,
\* it gives back the bytes the first cipher was given.
C12_RoundTrip ==
    (ci.kind = "pair" /\ SameKey /\ ci.b.fed = Take(ci.a.out, Len(ci.b.fed))) =>
       ci.b.out = Take(ci.a.fed, Len(ci.b.fed))

C12_Witness ==
    /\ ci.kind = "pair" /\ SameKey
    /\ Len(ci.a.fed) = MaxFed
    /\ ci.a.out # ci.a.fed
    /\ ci.b.fed = ci.a.out
    /\ ci.b.out = ci.a.fed
    /\ ci.a.calls # ci.b.calls

\* C13: however the bytes given to an initialised cipher were split into
\* crypt_inplace calls, the bytes produced and the cipher's final state
\* (i, j, permutation) are those of one call on the whole sequence.
C13_ChunksAsOneCall ==
    ci.kind = "pair" =>
       \A x \in {"a", "b"} :
          is_init(ci[x].rc) =>
             LET whole == InOneCall(x)
             IN  ci[x].out = whole.out /\ ci[x].rc = whole.rc

C13_Witness ==
    /\ ci.kind = "pair"
    /\ ci.a.long /\ ci.a.calls = 3
    /\ Len(ci.a.fed) = LongRun + 2

(***************************************************************************)
(* Properties of the process.                                              *)
(***************************************************************************)
\* C14: a failed accept ends no session that is running: no session thread
\* is stopped before handle_client has returned, that is, for a session
\* that is proxying, before its copy loops have ended.
C14_AcceptFailureSparesSessions ==
    proc.kind = "process" =>
       \A k \in 1..Len(proc.threads) :
          proc.threads[k].at # "ended" => proc.threads[k].alive

C16_StateIsPermutation ==
    ci.kind = "pair" =>
       \A x \in {"a", "b"} :
          is_init(ci[x].rc) =>
             /\ Len(ci[x].rc.state) = 256
             /\ {ci[x].rc.state[k] : k \in 1..256} = Byte
             /\ ci[x].rc.i \in Byte /\ ci[x].rc.j \in Byte
             /\ ci[x].rc.i = Len(ci[x].fed) % 256

\* i has gone round: 256 keystream bytes generated
C16_Witness ==
    /\ ci.kind = "pair"
    /\ Len(ci.a.fed) = 256
    /\ ci.a.rc.i = 0

(***************************************************************************)
(* Properties of the session, continued.                                   *)
(***************************************************************************)
\* C17: request parsing never panics: when the parse of a request stops,
\* and in particular that of a domain-name request whose input has ended
\* early or whose name gave no endpoint, connect has returned an error.
C17_RequestParseNeverPanics ==
    /\ failAt \in RqParsePcs => result = "err"
    /\ (atype = ATYPE_HOST /\ addr.kind \in {"err", "none"}) => result = "err"

\* C18: teardown is idempotent: as long as neither peer has reset its
\* connection, so that a shutdown can only find its socket already shut
\* down by the other loop, no copy thread dies in its teardown and connect
\* does not fail in joining them; and once both loops have ended and been
\* joined connect has returned normally.
C18_TeardownIsIdempotent ==
    (cliPeer # "rst" /\ upPeer # "rst") =>
       /\ t1.pc # "panicked" /\ t2.pc # "panicked"
       /\ failAt \notin {"join1", "join2"}
       /\ (pc = "closed") => result = "ok"

\* C19: no client byte is lost between the phases: once the handshake is
\* over it has taken 2 + N bytes from the client socket and no more, so the
\* request is parsed from the byte that follows them; and what the first
\* copy loop has written to the upstream writer is, in order and from the
\* first one, the client's bytes that follow the parsed request.
C19_NoClientByteLost ==
    /\ (pc \notin HsPcs /\ failAt \notin HsPcs) => rqStart = 2 + nmethods
    /\ c2uWritten = SubSeq(cliSent, pos + 1, pos + Len(c2uWritten))

(***************************************************************************)
(* Properties of the writer, continued.                                    *)
(***************************************************************************)
\* how many of the caller's bytes the endpoint accepted in request r: the
\* IV at the head of a first request is not the caller's
CallerBytesAccepted(r) ==
    IF r.call = 1 /\ r.first
    THEN (IF r.res.n > IV_LEN THEN r.res.n - IV_LEN ELSE 0)
    ELSE r.res.n

\* C20: every count CryptoWrite::write returns, on the first call as on
\* later ones, is the number of bytes of the caller's buffer that were
\* accepted, and so is at most the length of that buffer.
C20_ReturnWithinBuffer ==
    wr.kind = "CryptoWrite" =>
       \A k \in 1..Len(wr.reqs) :
          LET c == wr.reqs[k].call IN
          wr.rets[c].ok =>
             /\ wr.rets[c].n <= Len(wr.calls[c])
             /\ wr.rets[c].n = CallerBytesAccepted(wr.reqs[k])

====
